---- MODULE Spec2Model ----
(***************************************************************************)
(* LibBoostAsioHandler (include/amqpcpp/libboostasio.h): the descriptor    *)
(* watchers, the heartbeat timer and the completion callbacks that the     *)
(* io_service delivers on its worker threads and marshals into the strand. *)
(*                                                                         *)
(* An asynchronous operation is a record that moves through the stages     *)
(*   armed      started with the runtime; it completes at any time         *)
(*   cancelled  completed with operation_aborted by a cancel or a release  *)
(*   expired    (timer waits) completed with success; callback queued      *)
(*   locked     a worker thread runs the callback; it holds the strong     *)
(*              reference it got from the weak self-reference              *)
(*   posted     the strand was busy: the dispatched body is queued, the    *)
(*              callback has returned and dropped its references           *)
(*   running    the body is inside connection->process / ->heartbeat       *)
(* order (observer) is "late" for an operation that completed while an     *)
(* earlier completion of its descriptor and direction was still on its     *)
(* way, and "passed" for that earlier one once the late one is processed.  *)
(* The status of a read or write completion is drawn where the code first  *)
(* reads it: nothing reads it between the completion and that point.       *)
(***************************************************************************)
EXTENDS Integers, FiniteSets, Sequences, Bags, TLC

\* Bounds of the model.
MaxMonitor == 3
MaxNegotiate == 2
MaxTime == 4

\* Inputs.
FDs == {7, 8}
Directions == {"readable", "writable"}
Flags == SUBSET Directions
Intervals == {0, 1, 2}
MaxInterval == CHOOSE i \in Intervals : \A j \in Intervals : j <= i
Connections == {"c", "null"}

WIds == 1..MaxMonitor
NoWatcher == 0

\* Statuses a read/write completion can carry.
RuntimeStatus == {"success", "would_block", "eof"}
Status == RuntimeStatus \cup {"operation_aborted"}
\* Statuses a timer completion can carry.
TimerStatus == {"success", "operation_aborted"}

VARIABLES
    handlerAlive,  \* the LibBoostAsioHandler object exists
    watchers,      \* _watchers: fd -> Watcher object (NoWatcher: no entry)
    wt,            \* the Watcher objects: _read, _read_pending, _write, _write_pending
    ops,           \* bag of the zero-length read/write operations in flight
    closed,        \* a stream_descriptor has closed the descriptor it owned
    timerRef,      \* LibBoostAsioHandler::_timer is non-null
    expiry,        \* Timer::_timer.expires_at()
    waits,         \* bag of the timer waits in flight
    now,           \* the steady clock
    fault,         \* the process dereferenced a null pointer
    calls,         \* number of monitor calls and of onNegotiate calls made
    interest,      \* observer: the flags of the last monitor call per descriptor
    chain,         \* observer: the heartbeat chain started by the last set()
    proceeded,     \* observer: every read/write completion so far was success or would_block
    last           \* observer: the call or callback step made last

vars == <<handlerAlive, watchers, wt, ops, closed, timerRef, expiry, waits, now, fault, calls, interest, chain, proceeded, last>>
watcherVars == <<watchers, wt, ops, closed>>
timerVars == <<timerRef, expiry, waits>>

----------------------------------------------------------------------------
\* Bags of operation records.

Add(B, o) == B (+) SetToBag({o})
Remove(B, o) == B (-) SetToBag({o})
Elems(B) == BagToSet(B)
Move(B, o, n) == Add(Remove(B, o), n)
\* Number of operations of B that are in the set S, with multiplicity.
Count(B, S) == BagCardinality([o \in S \cap Elems(B) |-> B[o]])
\* The bag of the f[o] for the operations o in B, with multiplicity.
Each(f, B) ==
    IF \A x \in Elems(B) : f[x] = x THEN B
    ELSE [e \in {f[x] : x \in Elems(B)} |-> Count(B, {x \in Elems(B) : f[x] = e})]

\* Stages in which a callback holds a strong reference to its owner.
Holding == {"locked", "running"}

\* Watcher::Watcher: the member initialisers; owns says that _socket owns a
\* descriptor.
NewWatcher == [read |-> FALSE, read_pending |-> FALSE,
               write |-> FALSE, write_pending |-> FALSE, owns |-> FALSE]

\* Watcher::Watcher: _socket.assign(fd)
Assign(rec) == [rec EXCEPT !.owns = TRUE]

\* A destructor body that leaves the flags and the descriptor as they are.
Kept(rec) == rec

\* Watcher::~Watcher: _read = false; _write = false; _socket.release()
Released(rec) == [rec EXCEPT !.read = FALSE, !.write = FALSE, !.owns = FALSE]

\* _socket is destroyed after the body of ~Watcher: a stream_descriptor closes
\* the descriptor it still owns.
SocketDtor(rec) == rec.owns

\* async_read_some / async_write_some of null_buffers: w the Watcher whose weak
\* reference the callback holds.
ReadOp(w, fd) == [w |-> w, fd |-> fd, dir |-> "readable", stage |-> "armed", order |-> "first"]
WriteOp(w, fd) == [w |-> w, fd |-> fd, dir |-> "writable", stage |-> "armed", order |-> "first"]

\* shared_ptr<Watcher> use count > 0: the map or a running callback owns w.
InMap(M, w) == w # NoWatcher /\ \E fd \in FDs : M[fd] = w
Held(O, w) == \E o \in Elems(O) : o.w = w /\ o.stage \in Holding
WatcherAlive(M, O, w) == InMap(M, w) \/ Held(O, w)

\* _wpstrand.lock() yields the strand: _strand of the handler is its only owner
\* between the steps of this model (a callback holds it only while it dispatches).
StrandAlive(h) == h
\* A body dispatched into the strand is executing.
StrandBusy(O, Wt) ==
    (\E o \in Elems(O) : o.stage = "running") \/ (\E o \in Elems(Wt) : o.stage = "running")

----------------------------------------------------------------------------
\* Watcher

Pending(rec, dir) == IF dir = "readable" THEN rec.read_pending ELSE rec.write_pending
Interest(rec, dir) == IF dir = "readable" THEN rec.read ELSE rec.write
SetPending(rec, dir, v) ==
    IF dir = "readable" THEN [rec EXCEPT !.read_pending = v]
    ELSE [rec EXCEPT !.write_pending = v]

\* An interest test that never finds the direction in the flags.
WantedNever(flags, dir) == FALSE

\* (events & AMQP::readable) != 0, (events & AMQP::writable) != 0
Wanted(flags, dir) == dir \in flags

\* An exchange that succeeds whatever the flag holds.
CompareExchangeAlways(pending) == TRUE

\* _read_pending.compare_exchange_strong(expected = false, true) succeeds.
CompareExchange(pending) == ~pending

\* ec is success or would_block.
Proceeds(s) == s \in {"success", "would_block"}

\* A lock that yields an object whether or not the Watcher is still owned.
WeakLockAlways(M, O, w) == TRUE

\* awpWatcher.lock() yields a Watcher.
WeakLock(M, O, w) == WatcherAlive(M, O, w)

\* Operations of the descriptor and direction of o that have completed and whose
\* handler body has not started.
Delivered(O, o) ==
    {p \in Elems(O) : p.w # NoWatcher /\ p.fd = o.fd /\ p.dir = o.dir /\ p.stage \in {"locked", "posted"}}

\* Observer: an operation stops being late when no earlier completion of its
\* descriptor and direction is on its way any more.
Settle(O) ==
    Each([o \in Elems(O) |->
            IF o.order # "first" /\ (o.w = NoWatcher \/ (o.order = "late" /\ \A p \in Delivered(O, o) : p.order = "late"))
            THEN [o EXCEPT !.order = "first"] ELSE o], O)

\* Observer: the body of o starts; the earlier completions that are still on
\* their way have been passed by a late one.
Pass(O, o) ==
    IF o.order # "late" THEN O
    ELSE Each([p \in Elems(O) |->
                 IF p \in Delivered(O, o) /\ p.order = "first" THEN [p EXCEPT !.order = "passed"] ELSE p], O)

\* Watcher::~Watcher: _socket.release() completes every operation still with
\* the runtime with operation_aborted. The callbacks of a destroyed Watcher hold
\* an expired weak_ptr: they refer to NoWatcher.
WatcherDtor(o) ==
    IF o.stage = "armed" THEN [o EXCEPT !.w = NoWatcher, !.stage = "cancelled"]
    ELSE [o EXCEPT !.w = NoWatcher]

\* The Watcher objects nobody owns any more are destroyed.
ReapWt(M, T, O) == [w \in WIds |-> IF WatcherAlive(M, O, w) THEN T[w] ELSE NewWatcher]
ReapOps(M, O) ==
    Settle(Each([o \in Elems(O) |-> IF o.w = NoWatcher \/ WatcherAlive(M, O, o.w) THEN o ELSE WatcherDtor(o)], O))

\* Some Watcher that is destroyed closes its descriptor.
Closes(M, T, O) == \E w \in WIds : ~WatcherAlive(M, O, w) /\ SocketDtor(Released(T[w]))

Commit(M, T, O) ==
    /\ watchers' = M
    /\ wt' = ReapWt(M, T, O)
    /\ closed' = (closed \/ Closes(M, T, O))
    /\ ops' = ReapOps(M, O)

\* Watcher::events
events(rec, O, w, fd, flags) ==
    LET r == Wanted(flags, "readable")
        armR == r /\ CompareExchange(rec.read_pending)
        wr == Wanted(flags, "writable")
        armW == wr /\ CompareExchange(rec.write_pending)
        O1 == IF armR THEN Add(O, ReadOp(w, fd)) ELSE O
        O2 == IF armW THEN Add(O1, WriteOp(w, fd)) ELSE O1
    IN [rec |-> [rec EXCEPT !.read = r, !.read_pending = rec.read_pending \/ armR,
                            !.write = wr, !.write_pending = rec.write_pending \/ armW],
        ops |-> O2]

\* Names free for the Watcher that std::make_shared constructs.
FreeIds(M, O) == {w \in WIds : ~WatcherAlive(M, O, w)}
FirstFree(M, O) == CHOOSE w \in FreeIds(M, O) : \A v \in FreeIds(M, O) : w <= v

\* An erase that empties the map.
EraseAll(M, fd) == [f \in FDs |-> NoWatcher]

\* _watchers.erase(iter)
Erase(M, fd) == [M EXCEPT ![fd] = NoWatcher]

\* The state of the watchers, their objects and their operations.
State(M, T, O) ==
    [watchers |-> M, wt |-> ReapWt(M, T, O), ops |-> ReapOps(M, O), closes |-> Closes(M, T, O)]

\* LibBoostAsioHandler::monitor as a function of the state.
monitorState(M, T, O, fd, flags) ==
    LET w == M[fd] IN
    IF w = NoWatcher
    THEN IF flags = {}
         THEN State(M, T, O)
         ELSE LET n == FirstFree(M, O)
                  e == events(Assign(NewWatcher), O, n, fd, flags)
              IN State([M EXCEPT ![fd] = n], [T EXCEPT ![n] = e.rec], e.ops)
    ELSE IF flags = {}
         THEN State(Erase(M, fd), T, O)
         ELSE LET e == events(T[w], O, w, fd, flags)
              IN State(M, [T EXCEPT ![w] = e.rec], e.ops)

\* Observer of monitor: rep says that the call repeats the call made just before.
MonitorCall(fd, flags) ==
    [call |-> "monitor", fd |-> fd, flags |-> flags,
     rep |-> last.call = "monitor" /\ last.fd = fd /\ last.flags = flags]

\* LibBoostAsioHandler::monitor
monitor(fd, flags) ==
    /\ handlerAlive /\ ~fault /\ calls < MaxMonitor
    /\ calls' = calls + 1
    /\ LET r == monitorState(watchers, wt, ops, fd, flags)
       IN /\ watchers' = r.watchers
          /\ wt' = r.wt
          /\ ops' = r.ops
          /\ closed' = (closed \/ r.closes)
    /\ interest' = [interest EXCEPT ![fd] = flags]
    /\ last' = MonitorCall(fd, flags)
    /\ UNCHANGED <<handlerAlive, timerVars, now, fault, chain, proceeded>>

\* Observer of a callback step of operation o: stale says that the owner of the
\* callback has been destroyed.
Callback(o, what) == [call |-> IF o.w = NoWatcher THEN "stale" ELSE what]

\* read_handler / write_handler up to the call of connection->process
handler_begin(o, d, s) ==
    LET rec == SetPending(wt[o.w], o.dir, FALSE)
        T == [wt EXCEPT ![o.w] = rec]
    IN IF Proceeds(s) /\ Interest(rec, o.dir)
       THEN /\ Commit(watchers, T, Move(Pass(ops, o), o, [o EXCEPT !.stage = "running", !.order = "first"]))
            /\ proceeded' = (proceeded /\ Proceeds(d))
            /\ last' = [call |-> "process", fd |-> o.fd, dir |-> o.dir, inMap |-> watchers[o.fd] = o.w,
                        inOrder |-> o.order # "passed", st |-> d]
       ELSE /\ Commit(watchers, T, Remove(ops, o))
            /\ proceeded' = (proceeded /\ Proceeds(d))
            /\ last' = [call |-> "handler", w |-> o.w, fd |-> o.fd, dir |-> o.dir, st |-> d, ev |-> s,
                        interested |-> Interest(rec, o.dir)]

\* The status the runtime completes an operation with.
Completion(o) == IF o.stage = "cancelled" THEN {"operation_aborted"} ELSE RuntimeStatus

\* The operation completes and a worker thread invokes the completion callback of
\* get_read_handler / get_write_handler: awpWatcher.lock()
callback_lock(o) ==
    /\ ~fault /\ o.stage \in {"armed", "cancelled"}
    /\ IF WeakLock(watchers, ops, o.w)
       THEN Commit(watchers, wt, Move(ops, o, [o EXCEPT !.stage = "locked",
                                     !.order = IF Delivered(ops, o) # {} THEN "late" ELSE "first"]))
       ELSE Commit(watchers, wt, Remove(ops, o))
    /\ last' = Callback(o, "io")
    /\ proceeded' = (proceeded /\ o.stage # "cancelled")
    /\ UNCHANGED <<handlerAlive, timerVars, now, fault, calls, interest, chain>>

\* The completion callback after awpWatcher.lock(), invoked with status d:
\* _wpstrand.lock(), then the handler with operation_canceled when there is no
\* strand, else strand->dispatch, which runs the body at once unless the strand
\* is busy.
callback_dispatch(o, d) ==
    /\ ~fault /\ o.stage = "locked"
    /\ IF ~StrandAlive(handlerAlive)
       THEN handler_begin(o, d, "operation_aborted")
       ELSE IF StrandBusy(ops, waits)
            THEN /\ Commit(watchers, wt, Move(ops, o, [o EXCEPT !.stage = "posted"]))
                 /\ last' = Callback(o, "io")
                 /\ UNCHANGED proceeded
            ELSE handler_begin(o, d, d)
    /\ UNCHANGED <<handlerAlive, timerVars, now, fault, calls, interest, chain>>

\* The status a queued body reads through its reference to the ec of the
\* callback that has returned, which was invoked with status d.
DanglingStatus(d) == Status

\* The strand runs a queued body, of a callback that was invoked with status d.
run_posted(o, d) ==
    /\ ~fault /\ o.stage = "posted" /\ ~StrandBusy(ops, waits)
    /\ IF WeakLock(watchers, ops, o.w)
       THEN \E s \in DanglingStatus(d) : handler_begin(o, d, s)
       ELSE /\ Commit(watchers, wt, Remove(ops, o))
            /\ last' = Callback(o, "io")
            /\ UNCHANGED proceeded
    /\ UNCHANGED <<handlerAlive, timerVars, now, fault, calls, interest, chain>>

\* read_handler / write_handler after connection->process has returned
handler_end(o) ==
    /\ ~fault /\ o.stage = "running"
    /\ LET rec == wt[o.w]
           arm == CompareExchange(Pending(rec, o.dir))
           T == IF arm THEN [wt EXCEPT ![o.w] = SetPending(rec, o.dir, TRUE)] ELSE wt
           n == IF o.dir = "readable" THEN ReadOp(o.w, o.fd) ELSE WriteOp(o.w, o.fd)
           O == IF arm THEN Add(Remove(ops, o), n) ELSE Remove(ops, o)
       IN Commit(watchers, T, O)
    /\ last' = [call |-> "handled", fd |-> o.fd, dir |-> o.dir,
                armed |-> CompareExchange(Pending(wt[o.w], o.dir)),
                interested |-> Interest(wt[o.w], o.dir),
                pending |-> Pending(wt[o.w], o.dir)]
    /\ UNCHANGED <<handlerAlive, timerVars, now, fault, calls, interest, chain, proceeded>>

----------------------------------------------------------------------------
\* Timer

\* A wait: stage as above, conn and timeout the values bound into the callback,
\* st the status the callback was invoked with ("none" before that).
Wait(conn, timeout) == [stage |-> "armed", conn |-> conn, timeout |-> timeout, st |-> "none"]

\* shared_ptr<Timer> use count > 0: _timer of the handler or a running callback.
TimerAlive(ref, Wt) == ref \/ \E o \in Elems(Wt) : o.stage \in Holding

\* awpTimer.lock() yields the Timer.
TimerWeakLock(ref, Wt) == TimerAlive(ref, Wt)

\* asio::steady_timer::cancel (and expires_at, expires_from_now): the waits that
\* have not expired complete with operation_aborted.
Cancel(Wt) ==
    Each([o \in Elems(Wt) |-> IF o.stage = "armed" THEN [o EXCEPT !.stage = "cancelled"] ELSE o], Wt)

\* Timer::stop
stop(Wt) == Cancel(Wt)

\* Timer::~Timer, once nobody owns the Timer any more.
CommitTimer(ref, exp, Wt) ==
    /\ timerRef' = ref
    /\ expiry' = IF TimerAlive(ref, Wt) THEN exp ELSE 0
    /\ waits' = IF TimerAlive(ref, Wt) THEN Wt ELSE stop(Wt)

\* _timer.expires_from_now(std::chrono::seconds(timeout))
ExpiresFromNow(timeout) == now + timeout

\* Timer::set
set(conn, timeout) ==
    /\ CommitTimer(timerRef, ExpiresFromNow(timeout), Add(stop(waits), Wait(conn, timeout)))
    /\ chain' = [sets |-> IF chain.sets = 0 THEN 1 ELSE 2, at |-> now, n |-> timeout,
                 conn |-> conn, beats |-> 0]

\* LibBoostAsioHandler::onNegotiate; ret is the value returned.
onNegotiate(conn, interval) ==
    /\ handlerAlive /\ ~fault /\ calls < MaxNegotiate
    /\ calls' = calls + 1
    /\ IF interval = 0
       THEN /\ UNCHANGED <<timerVars, fault, chain>>
            /\ last' = [call |-> "onNegotiate", interval |-> interval, ret |-> 0, arms |-> FALSE]
       ELSE IF ~timerRef
            THEN /\ fault' = TRUE
                 /\ UNCHANGED <<timerVars, chain>>
                 /\ last' = [call |-> "onNegotiate", interval |-> interval, ret |-> -1, arms |-> FALSE]
            ELSE /\ set(conn, interval)
                 /\ UNCHANGED fault
                 /\ last' = [call |-> "onNegotiate", interval |-> interval, ret |-> interval,
                             arms |-> BagCardinality(waits') = BagCardinality(waits) + 1]
    /\ UNCHANGED <<handlerAlive, watcherVars, now, interest, proceeded>>

\* LibBoostAsioHandler::onClosed: _timer.reset()
onClosed ==
    /\ handlerAlive /\ ~fault
    /\ CommitTimer(FALSE, expiry, waits)
    /\ last' = [call |-> "onClosed", twice |-> last.call = "onClosed"]
    /\ UNCHANGED <<handlerAlive, watcherVars, now, fault, calls, interest, chain, proceeded>>

\* The steady clock advances.
Tick ==
    /\ ~fault /\ now < MaxTime
    /\ now' = now + 1
    /\ last' = [call |-> "io"]
    /\ UNCHANGED <<handlerAlive, watcherVars, timerVars, fault, calls, interest, chain, proceeded>>

\* The runtime completes a wait whose deadline has passed.
expire(o) ==
    /\ ~fault /\ o.stage = "armed" /\ now >= expiry
    /\ waits' = Move(waits, o, [o EXCEPT !.stage = "expired"])
    /\ last' = [call |-> "io"]
    /\ UNCHANGED <<handlerAlive, watcherVars, timerRef, expiry, now, fault, calls, interest, chain, proceeded>>

\* A deadline counted from the time of the call instead of the previous deadline.
RescheduledFromNow(exp, timeout) == now + timeout

\* _timer.expires_at() + std::chrono::seconds(timeout)
Rescheduled(exp, timeout) == exp + timeout

\* Timer::timeout after connection->heartbeat() has returned, or without the call
\* when there is no connection: the wait is re-armed.
timeout_rearm(o) ==
    CommitTimer(timerRef, Rescheduled(expiry, o.timeout),
                Add(Cancel(Remove(waits, o)), Wait(o.conn, o.timeout)))

\* Timer::timeout up to the call of connection->heartbeat()
timeout_begin(o, s) ==
    IF s = "success"
    THEN /\ expiry + o.timeout <= MaxTime + MaxInterval
         /\ IF o.conn # "null"
            THEN /\ CommitTimer(timerRef, expiry, Move(waits, o, [o EXCEPT !.stage = "running"]))
                 /\ chain' = IF chain.sets = 0 THEN chain ELSE [chain EXCEPT !.beats = @ + 1]
                 /\ last' = [call |-> "heartbeat", at |-> now, deadline |-> expiry,
                             timeout |-> o.timeout, closed |-> ~timerRef]
            ELSE /\ timeout_rearm(o)
                 /\ UNCHANGED chain
                 /\ last' = [call |-> "rearm", from |-> expiry, timeout |-> o.timeout]
    ELSE /\ CommitTimer(timerRef, expiry, Remove(waits, o))
         /\ UNCHANGED chain
         /\ last' = [call |-> "io"]

\* A worker thread invokes the completion callback of get_handler: awpTimer.lock()
timer_lock(o) ==
    /\ ~fault /\ o.stage \in {"expired", "cancelled"}
    /\ IF TimerWeakLock(timerRef, waits)
       THEN CommitTimer(timerRef, expiry,
                Move(waits, o, [o EXCEPT !.stage = "locked",
                    !.st = IF o.stage = "expired" THEN "success" ELSE "operation_aborted"]))
       ELSE CommitTimer(timerRef, expiry, Remove(waits, o))
    /\ last' = [call |-> IF TimerAlive(timerRef, waits) THEN "io" ELSE "stale"]
    /\ UNCHANGED <<handlerAlive, watcherVars, now, fault, calls, interest, chain, proceeded>>

\* The completion callback after awpTimer.lock(): _wpstrand.lock(), then timeout
\* with operation_canceled when there is no strand, else strand->dispatch.
timer_dispatch(o) ==
    /\ ~fault /\ o.stage = "locked"
    /\ IF ~StrandAlive(handlerAlive)
       THEN timeout_begin(o, "operation_aborted")
       ELSE IF StrandBusy(ops, waits)
            THEN /\ CommitTimer(timerRef, expiry, Move(waits, o, [o EXCEPT !.stage = "posted"]))
                 /\ UNCHANGED chain
                 /\ last' = [call |-> "io"]
            ELSE timeout_begin(o, o.st)
    /\ UNCHANGED <<handlerAlive, watcherVars, now, fault, calls, interest, proceeded>>

\* The status a queued timer body reads through its reference to the ec of the
\* callback that has returned, which was invoked with status d.
DanglingTimerStatus(d) == TimerStatus

\* The strand runs a queued timer body.
timer_run_posted(o) ==
    /\ ~fault /\ o.stage = "posted" /\ ~StrandBusy(ops, waits)
    /\ IF TimerWeakLock(timerRef, waits)
       THEN \E s \in DanglingTimerStatus(o.st) : timeout_begin(o, s)
       ELSE /\ CommitTimer(timerRef, expiry, Remove(waits, o))
            /\ UNCHANGED chain
            /\ last' = [call |-> "stale"]
    /\ UNCHANGED <<handlerAlive, watcherVars, now, fault, calls, interest, proceeded>>

\* connection->heartbeat() returns to Timer::timeout.
timeout_end(o) ==
    /\ ~fault /\ o.stage = "running"
    /\ timeout_rearm(o)
    /\ last' = [call |-> "rearm", from |-> expiry, timeout |-> o.timeout]
    /\ UNCHANGED <<handlerAlive, watcherVars, now, fault, calls, interest, chain, proceeded>>

\* LibBoostAsioHandler::~LibBoostAsioHandler: _timer, _watchers and _strand are
\* released. The owner destroys the handler from the strand.
destroy ==
    /\ handlerAlive /\ ~fault /\ ~StrandBusy(ops, waits)
    /\ handlerAlive' = FALSE
    /\ Commit([fd \in FDs |-> NoWatcher], wt, ops)
    /\ CommitTimer(FALSE, expiry, waits)
    /\ last' = [call |-> "destroy"]
    /\ UNCHANGED <<now, fault, calls, interest, chain, proceeded>>

----------------------------------------------------------------------------
Init ==
    /\ handlerAlive = TRUE
    /\ watchers = [fd \in FDs |-> NoWatcher]
    /\ wt = [w \in WIds |-> NewWatcher]
    /\ ops = EmptyBag
    /\ closed = FALSE
    /\ timerRef = TRUE
    /\ expiry = 0
    /\ waits = EmptyBag
    /\ now = 0
    /\ fault = FALSE
    /\ calls = 0
    /\ interest = [fd \in FDs |-> {}]
    /\ proceeded = TRUE
    /\ chain = [sets |-> 0, at |-> 0, n |-> 0, conn |-> "null", beats |-> 0]
    /\ last = [call |-> "init"]

\* The descriptor the watcher specification registers.
Watched == {7}

NextW ==
    \/ \E fd \in Watched, flags \in Flags : monitor(fd, flags)
    \/ \E o \in Elems(ops) : callback_lock(o)
    \/ \E o \in Elems(ops) : \E d \in Completion(o) : callback_dispatch(o, d)
    \/ \E o \in Elems(ops) : \E d \in Completion(o) : run_posted(o, d)
    \/ \E o \in Elems(ops) : handler_end(o)
    \/ destroy

NextT ==
    \/ \E conn \in Connections, interval \in Intervals : onNegotiate(conn, interval)
    \/ onClosed
    \/ Tick
    \/ \E o \in Elems(waits) : expire(o)
    \/ \E o \in Elems(waits) : timer_lock(o)
    \/ \E o \in Elems(waits) : timer_dispatch(o)
    \/ \E o \in Elems(waits) : timer_run_posted(o)
    \/ \E o \in Elems(waits) : timeout_end(o)
    \/ destroy

\* The watchers and the timer together, before the first deadline is due: one
\* descriptor registered for both directions or removed, one interval.
NextS ==
    \/ \E flags \in {{}, Directions} : monitor(7, flags)
    \/ \E o \in Elems(ops) : callback_lock(o)
    \/ \E o \in Elems(ops) : \E d \in Completion(o) : callback_dispatch(o, d)
    \/ \E o \in Elems(ops) : \E d \in Completion(o) : run_posted(o, d)
    \/ \E o \in Elems(ops) : handler_end(o)
    \/ onNegotiate("c", 1)
    \/ onClosed
    \/ \E o \in Elems(waits) : timer_lock(o)
    \/ \E o \in Elems(waits) : timer_dispatch(o)
    \/ \E o \in Elems(waits) : timer_run_posted(o)
    \/ \E o \in Elems(waits) : timeout_end(o)
    \/ destroy

Spec == Init /\ [][NextS]_vars

\* The flags the two-descriptor specification registers a descriptor with:
\* descriptor 7 is watched for one or both directions, descriptor 8 is watched
\* for readability or removed.
SomeFlags(fd) == IF fd = 7 THEN {{"readable"}, Directions} ELSE {{}, {"readable"}}

\* Two descriptors and the calls that set and reset the timer, before the first
\* deadline is due.
NextF ==
    \/ \E fd \in FDs : \E flags \in SomeFlags(fd) : monitor(fd, flags)
    \/ \E o \in Elems(ops) : callback_lock(o)
    \/ \E o \in Elems(ops) : \E d \in Completion(o) : callback_dispatch(o, d)
    \/ \E o \in Elems(ops) : \E d \in Completion(o) : run_posted(o, d)
    \/ \E o \in Elems(ops) : handler_end(o)
    \/ onNegotiate("c", 1)
    \/ onClosed

SpecF == Init /\ [][NextF]_vars

\* The descriptor watchers alone.
SpecW == Init /\ [][NextW]_vars

\* The heartbeat timer alone.
SpecT == Init /\ [][NextT]_vars

----------------------------------------------------------------------------
\* Properties

\* The operations of Watcher w in direction dir whose handler body has not
\* started: with the runtime, or in a callback that has not reached the body.
Outstanding(w, dir) ==
    Count(ops, {o \in Elems(ops) : o.w = w /\ o.dir = dir /\ o.stage \in {"armed", "locked", "posted"}})

\* The operations of destroyed Watchers on descriptor fd.
Orphans(O, fd) == [o \in {x \in Elems(O) : x.w = NoWatcher /\ x.fd = fd} |-> O[o]]

\* What can be seen of descriptor fd in state s: whether it has a Watcher, the
\* interest and pending flags of the Watcher, and its operations.
View(s, fd) ==
    LET w == s.watchers[fd] IN
    [present |-> w # NoWatcher,
     rec |-> IF w = NoWatcher THEN NewWatcher ELSE s.wt[w],
     ops |-> IF w = NoWatcher THEN EmptyBag
             ELSE Each([o \in {x \in Elems(s.ops) : x.w = w} |-> [o EXCEPT !.w = NoWatcher]],
                       [o \in {x \in Elems(s.ops) : x.w = w} |-> s.ops[o]])]

\* C1: once monitor(c, fd, 0) has returned there is no Watcher for fd in the map,
\* and connection->process is not called for a Watcher that has been removed from
\* the map, whichever way the completion callbacks interleave with the call.
C1_NoProcessAfterRemoval ==
    /\ (last.call = "monitor" /\ last.flags = {}) => watchers[last.fd] = NoWatcher
    /\ (last.call = "process" /\ handlerAlive) => last.inMap

\* C2: a Watcher has at most one outstanding read operation and at most one
\* outstanding write operation, and it has one exactly when the pending flag of
\* the direction is set: an operation is armed only together with the flip of the
\* flag from false to true.
C2_OneOutstanding ==
    \A w \in WIds : \A dir \in Directions :
        Outstanding(w, dir) = IF Pending(wt[w], dir) THEN 1 ELSE 0

\* C2 witness: while the body of a read or write handler runs, a re-entrant
\* monitor has armed the next operation of the same direction.
C2_Witness ==
    \E o \in Elems(ops) : o.stage = "running" /\ Outstanding(o.w, o.dir) = 1

\* C3: onNegotiate(c, 0) arms no wait and returns 0; onNegotiate(c, N) with N > 0
\* arms a wait and returns N, without faulting, in every state that calls of
\* onNegotiate and onClosed lead to.
C3_Negotiate ==
    last.call = "onNegotiate" =>
        /\ ~fault
        /\ last.ret = last.interval
        /\ last.arms = (last.interval > 0)

\* C4: after onClosed has returned, once or twice in a row, connection->heartbeat
\* is not called any more, whichever way the timer callbacks interleave with the
\* call; and onClosed does not fault.
C4_NoHeartbeatAfterClosed ==
    /\ last.call = "onClosed" => ~fault
    /\ (last.call = "heartbeat" /\ handlerAlive) => ~last.closed

\* C5: a read, write or timer completion that is delivered after its Watcher or
\* Timer has been destroyed only goes away: no call of process or heartbeat, no
\* new operation or wait, no change of a flag, of the map or of the timer.
C5_StaleCompletionNoop ==
    [][last'.call = "stale" =>
        /\ UNCHANGED <<handlerAlive, watchers, wt, timerRef, expiry, now, fault, calls, interest, chain>>
        /\ \/ /\ waits' = waits
              /\ \E o \in Elems(ops) : o.w = NoWatcher /\ ops' = Remove(ops, o)
           \/ /\ ops' = ops
              /\ ~TimerAlive(timerRef, waits)
              /\ \E o \in Elems(waits) : waits' = Remove(waits, o)]_vars

\* C5 witness: the completion of an operation of a Watcher that monitor(c, fd, 0)
\* destroyed has been delivered, the handler still being there.
C5_Witness ==
    last.call = "stale" /\ handlerAlive /\ watchers[7] = NoWatcher /\ ~timerRef

\* C6: the deadline a wait is re-armed with is the previous deadline plus the
\* interval, however late the handler runs; so the k-th heartbeat of a timer set
\* once at time t with interval N belongs to the deadline t + k * N, and is called
\* at that time when the handler runs without latency.
C6_NoDrift ==
    /\ (last.call = "rearm" /\ TimerAlive(timerRef, waits)) =>
            /\ expiry = last.from + last.timeout
            /\ \E o \in Elems(waits) : o.stage = "armed" /\ o.timeout = last.timeout
    /\ (last.call = "heartbeat" /\ chain.sets = 1) =>
            /\ last.deadline = chain.at + chain.beats * chain.n
            /\ last.at = last.deadline => last.at = chain.at + chain.beats * chain.n

\* C6 witness: the second heartbeat of a timer set once, called late.
C6_Witness ==
    /\ last.call = "heartbeat" /\ chain.sets = 1 /\ chain.beats = 2
    /\ last.at > last.deadline

\* The states after monitor(c, fd, readable), and after monitor(c, fd, readable |
\* writable); monitor(c, fd, 0); monitor(c, fd, readable).
Fresh(fd) == monitorState(watchers, wt, ops, fd, {"readable"})
Cycled(fd) ==
    LET a == monitorState(watchers, wt, ops, fd, Directions)
        b == monitorState(a.watchers, a.wt, a.ops, fd, {})
    IN monitorState(b.watchers, b.wt, b.ops, fd, {"readable"})

\* C7: on a descriptor without a Watcher, monitor(c, fd, readable | writable);
\* monitor(c, fd, 0); monitor(c, fd, readable) leaves what a fresh monitor(c, fd,
\* readable) leaves: one Watcher with read interest only and one read operation
\* armed, the two operations of the first registration belonging to a destroyed
\* Watcher; and after the three calls no completion of an operation of the first
\* registration has connection->process called.
C7_RemoveAndAddAgain ==
    /\ \A fd \in Watched : watchers[fd] = NoWatcher =>
          /\ View(Cycled(fd), fd) = View(Fresh(fd), fd)
          /\ \A g \in FDs \ {fd} : Cycled(fd).watchers[g] = watchers[g]
          /\ Orphans(Cycled(fd).ops, fd) =
                Orphans(ops, fd)
                  (+) SetToBag({[ReadOp(NoWatcher, fd) EXCEPT !.stage = "cancelled"],
                                [WriteOp(NoWatcher, fd) EXCEPT !.stage = "cancelled"]})
    /\ (/\ calls = 3 /\ handlerAlive /\ last.call = "process"
        /\ interest[last.fd] = {"readable"}
        /\ \E w \in WIds : w # watchers[last.fd] /\ wt[w].read /\ wt[w].write)
       => last.inMap

\* C8: for a descriptor registered for reading only, a read completion with
\* status success has connection->process(fd, readable) called, after which one
\* read operation is outstanding again; and a Watcher without write interest
\* whose write flag is clear has no write operation.
C8_ReadableOnly ==
    /\ ~(/\ last.call = "handler" /\ handlerAlive
         /\ last.dir = "readable" /\ last.interested /\ last.st = "success"
         /\ interest[last.fd] = {"readable"}
         /\ \A o \in Elems(ops) : o.dir = "readable")
    /\ \A w \in WIds :
          (~wt[w].write /\ ~wt[w].write_pending) => Outstanding(w, "writable") = 0

\* The state is the state s.
Same(s) == s.watchers = watchers /\ s.wt = wt /\ s.ops = ops

\* C9: after monitor(c, fd, flags) the same call again changes nothing: not the
\* map, the interest flags, the pending flags or the operations; and monitor(c,
\* fd, 0) on a descriptor without a Watcher changes nothing.
C9_Idempotent ==
    /\ last.call = "monitor" => Same(monitorState(watchers, wt, ops, last.fd, last.flags))
    /\ \A fd \in Watched : watchers[fd] = NoWatcher => Same(monitorState(watchers, wt, ops, fd, {}))

\* C9 witness: the same call has been made twice in a row from within process,
\* after the handler body cleared the pending flag.
C9_Witness ==
    /\ last.call = "monitor" /\ last.rep /\ last.flags # {}
    /\ \E o \in Elems(ops) : o.stage = "running" /\ o.w = watchers[last.fd]

\* C10: a descriptor is in the map exactly when the last call of monitor for it
\* passed flags other than 0, and the Watcher in the map has the interest of
\* those flags, so read or write interest.
C10_MapIffInterest ==
    handlerAlive =>
        \A fd \in FDs :
            /\ watchers[fd] # NoWatcher <=> interest[fd] # {}
            /\ watchers[fd] # NoWatcher =>
                  /\ wt[watchers[fd]].read \/ wt[watchers[fd]].write
                  /\ \A dir \in Directions : Interest(wt[watchers[fd]], dir) <=> dir \in interest[fd]

\* C10 witness: a descriptor that was removed is in the map again, for writing.
C10_Witness ==
    /\ handlerAlive /\ watchers[7] # NoWatcher /\ interest[7] = {"writable"}
    /\ \E o \in Elems(ops) : o.w = NoWatcher

\* The bodies that are inside connection->process or connection->heartbeat.
Running == Count(ops, {o \in Elems(ops) : o.stage = "running"})
             + Count(waits, {o \in Elems(waits) : o.stage = "running"})

\* C11: no two of the bodies that call connection->process or
\* connection->heartbeat execute at the same time, and the process calls for one
\* descriptor and direction come in the order in which the operations completed.
C11_Serialized ==
    /\ Running <= 1
    /\ last.call = "process" => last.inOrder

\* C12: a Watcher that is destroyed, by monitor(c, fd, 0) or with the handler,
\* gives up its descriptor without closing it: no descriptor is ever closed, a
\* Watcher owns its descriptor as long as it exists and not after.
C12_NeverClosed ==
    /\ ~closed
    /\ \A w \in WIds : wt[w].owns <=> WatcherAlive(watchers, ops, w)
    /\ \A w \in WIds : ~WatcherAlive(watchers, ops, w) => ~wt[w].read /\ ~wt[w].write

\* C12 witness: the handler has been destroyed and with it a Watcher whose
\* operation was still armed, after another Watcher was removed by monitor.
C12_Witness ==
    /\ ~handlerAlive /\ calls = 3
    /\ \E o \in Elems(ops) : o.w = NoWatcher /\ o.stage = "cancelled"

\* C13: after connection->process has returned, the handler arms a new operation
\* of the direction exactly when the direction is still interested and no
\* operation of it is pending; it does not re-arm when process, through monitor,
\* cleared the interest.
C13_RearmIfInterested ==
    last.call = "handled" => (last.armed <=> (last.interested /\ ~last.pending))

\* C14: connection->process(fd, d) is called only for a completion of direction
\* d with status success or would_block, and only when the Watcher has interest
\* in d as the handler runs; the completion of an operation whose direction lost
\* its interest clears the pending flag, calls no process and arms nothing.
C14_ProcessOnlyIfInterested ==
    /\ last.call = "process" =>
          /\ Proceeds(last.st)
          /\ \E o \in Elems(ops) :
                /\ o.stage = "running" /\ o.fd = last.fd /\ o.dir = last.dir
                /\ Interest(wt[o.w], o.dir)
    /\ (last.call = "handler" /\ ~last.interested /\ last.w # NoWatcher) =>
          /\ ~Pending(wt[last.w], last.dir)
          /\ Outstanding(last.w, last.dir) = 0

\* C15: a read or write completion with a status other than success or
\* would_block, and a completion that finds no strand, has no
\* connection->process called, clears the pending flag of its direction and arms
\* no operation; the interest flags stay as they were.
C15_ErrorCompletion ==
    /\ last.call = "process" => last.st \notin (Status \ {"success", "would_block"})
    /\ (/\ last.call = "handler" /\ last.w # NoWatcher
        /\ (~Proceeds(last.st) \/ ~handlerAlive)) =>
          /\ ~Pending(wt[last.w], last.dir)
          /\ Outstanding(last.w, last.dir) = 0
          /\ WatcherAlive(watchers, ops, last.w) => Interest(wt[last.w], last.dir) = last.interested

\* The waits of the timer the runtime has not completed yet.
Armed == {o \in Elems(waits) : o.stage = "armed"}

\* C16: Timer::set replaces the wait: after onNegotiate has set the timer there
\* is one wait outstanding, with the deadline now + interval; there is never
\* more than one wait outstanding; and a wait armed before the last set causes
\* no heartbeat, so a heartbeat has the interval of the last set and is not
\* called before the deadline of that set.
C16_SetReplaces ==
    /\ Count(waits, Armed) <= 1
    /\ (last.call = "onNegotiate" /\ last.ret > 0) =>
          /\ Count(waits, Armed) = 1
          /\ expiry = now + last.interval
          /\ \A o \in Armed : o.timeout = last.interval
    /\ (last.call = "heartbeat" /\ chain.sets > 0) =>
          /\ last.timeout = chain.n
          /\ last.at >= chain.at + chain.n

\* The waits whose handler is inside connection->heartbeat().
Beating == {o \in Elems(waits) : o.stage = "running"}

\* C17: Timer::timeout calls connection->heartbeat() only for a wait that
\* completed without error and with a connection, once, and then re-arms one
\* wait; for a wait completed with an error or cancelled it calls no heartbeat.
C17_Timeout ==
    /\ \A o \in Beating : o.st = "success" /\ o.conn # "null"
    /\ last.call = "heartbeat" => Count(waits, Beating) = 1
    /\ (last.call = "rearm" /\ TimerAlive(timerRef, waits)) =>
          /\ Count(waits, Armed) = 1
          /\ Beating = {}

\* C18: when onNegotiate returns for the interval 0 no wait of the timer is
\* outstanding, whatever an earlier onNegotiate armed, and onNegotiate has
\* returned 0.
C18_ZeroDisarms ==
    (last.call = "onNegotiate" /\ last.interval = 0) =>
        /\ last.ret = 0
        /\ Armed = {}

\* The operations on descriptor fd and direction dir that the runtime has not
\* completed yet, of whichever Watcher.
Probes(fd, dir) == {o \in Elems(ops) : o.fd = fd /\ o.dir = dir /\ o.stage = "armed"}

\* C19: for a descriptor and a direction at most one operation is outstanding,
\* counted over all the Watchers that were created for the descriptor.
C19_OneProbe ==
    \A fd \in FDs, dir \in Directions : Count(ops, Probes(fd, dir)) <= 1

\* A completion callback of a Watcher is between awpWatcher.lock() and its return.
Executing == \E o \in Elems(ops) : o.stage \in {"locked", "posted", "running"}

\* C20: as long as every completion had the status success or would_block, in
\* a state where no callback is executing every Watcher of the map has an
\* operation outstanding for each direction it has interest in.
C20_NoEventLost ==
    (proceeded /\ handlerAlive /\ ~Executing) =>
        \A fd \in FDs : watchers[fd] # NoWatcher =>
            \A dir \in Directions : Interest(wt[watchers[fd]], dir) =>
                /\ Pending(wt[watchers[fd]], dir)
                /\ \E o \in Probes(fd, dir) : o.w = watchers[fd]

\* C21: the status read_handler, write_handler and timeout evaluate on the
\* strand is the status the runtime delivered for the operation, also when the
\* body was queued and runs after its callback has returned: process is called
\* only for a delivered success or would_block, a handler that calls no process
\* has evaluated the delivered status, and heartbeat is called only for a wait
\* delivered with success.
C21_StatusAsDelivered ==
    /\ last.call = "process" => last.st \in {"success", "would_block"}
    /\ (last.call = "handler" /\ StrandAlive(handlerAlive)) => last.ev = last.st
    /\ \A o \in Beating : o.st = "success"

\* The operations of descriptor fd in the bag O.
OpsOf(O, fd) == [o \in {x \in Elems(O) : x.fd = fd} |-> O[o]]

\* The other direction.
Other(dir) == IF dir = "readable" THEN "writable" ELSE "readable"

\* The operations of Watcher w and direction dir the runtime has not completed.
ArmedOf(O, w, dir) == {o \in Elems(O) : o.w = w /\ o.dir = dir /\ o.stage = "armed"}

\* C22: monitor(c, fd, flags) leaves the map entry, the Watcher, and the
\* operations of every other descriptor and the timer as they were; a step of
\* read_handler leaves the write interest and the write pending flag of every
\* Watcher as they were and arms no write operation, and the same for
\* write_handler and read; onNegotiate and onClosed leave the map, the Watchers
\* and the operations as they were.
C22_Frame ==
    [][/\ last'.call = "monitor" =>
            /\ \A fd \in FDs \ {last'.fd} :
                  /\ watchers'[fd] = watchers[fd]
                  /\ watchers[fd] # NoWatcher => wt'[watchers[fd]] = wt[watchers[fd]]
                  /\ OpsOf(ops', fd) = OpsOf(ops, fd)
            /\ UNCHANGED timerVars
       /\ last'.call \in {"process", "handler", "handled"} =>
            \A w \in WIds : WatcherAlive(watchers', ops', w) =>
                  /\ Interest(wt'[w], Other(last'.dir)) = Interest(wt[w], Other(last'.dir))
                  /\ Pending(wt'[w], Other(last'.dir)) = Pending(wt[w], Other(last'.dir))
                  /\ Count(ops', ArmedOf(ops', w, Other(last'.dir)))
                        <= Count(ops, ArmedOf(ops, w, Other(last'.dir)))
       /\ last'.call \in {"onNegotiate", "onClosed"} => UNCHANGED watcherVars
      ]_vars

\* C22 witness: monitor(c, 8, readable) has registered descriptor 8 while
\* descriptor 7 has a Watcher with an operation outstanding and the timer has a
\* wait outstanding.
C22_Witness ==
    /\ last.call = "monitor" /\ last.fd = 8 /\ last.flags = {"readable"}
    /\ watchers[8] # NoWatcher /\ Probes(8, "readable") # {}
    /\ watchers[7] # NoWatcher /\ Probes(7, "writable") # {}
    /\ Armed # {}

====
